---- MODULE Spec2Model ----
(***************************************************************************)
(* One Collect pass of DockerSwarmCollector (docker-swarm-exporter).       *)
(* The daemon's answers (containers, info, services, nodes, tasks) are the *)
(* inputs, fixed for a pass; every API call either returns the daemon's    *)
(* answer or fails, and fails once the pass deadline has elapsed.          *)
(* A failed list call returns a nil slice, as the Docker client does.      *)
(***************************************************************************)
EXTENDS Integers, Sequences, FiniteSets, TLC

\* ---- bounds of the model ------------------------------------------------
MaxContainers == 2
MaxServices == 2
MaxNodes == 2
MaxTasks == 2

\* ---- the daemon's vocabularies ------------------------------------------
\* Container states the daemon reports (container.State).
ContainerStates ==
    {"created", "running", "paused", "restarting", "removing", "exited", "dead"}

\* info.Swarm.LocalNodeState
LocalNodeStates == {"inactive", "pending", "active", "error", "locked"}

\* *service.Spec.Mode.Replicated.Replicas of the replicated services
ReplicaTargets == {3}

\* the Stack of a service without the com.docker.stack.namespace label
NoStack == "<nolabel>"
StackNames == {"a", "b"}

NodeStates == {"ready", "down"}
TaskStates == {"running", "failed"}

NodeIds == 1..MaxNodes

VARIABLES
    dContainers,   \* daemon: container states, one per container
    dInfoState,    \* daemon: info.Swarm.LocalNodeState
    dServices,     \* daemon: service list
    dNodes,        \* daemon: node list
    dTasks,        \* daemon: task list
    pc,            \* position of the pass
    i,             \* index of the service loop
    services,      \* local `services` of collectSwarmMetrics
    nodes,         \* local `nodes` of collectSwarmMetrics
    out,           \* samples written to ch, in order
    logs,          \* messages given to log.Printf, in order
    calls,         \* API calls made, in order
    expired        \* the deadline of ctx has elapsed

daemon == <<dContainers, dInfoState, dServices, dNodes, dTasks>>
vars == <<dContainers, dInfoState, dServices, dNodes, dTasks,
          pc, i, services, nodes, out, logs, calls, expired>>

\* ---- helpers ------------------------------------------------------------
SeqUpTo(S, n) == UNION {[1..k -> S] : k \in 0..n}

Range(s) == {s[k] : k \in DOMAIN s}

RECURSIVE SumOver(_, _)
SumOver(f, S) ==
    IF S = {} THEN 0
    ELSE LET x == CHOOSE y \in S : TRUE IN f[x] + SumOver(f, S \ {x})

\* All orders in which a Go map with key set S can be ranged over.
Orders(S) ==
    {p \in [1..Cardinality(S) -> S] :
        \A a, b \in DOMAIN p : a # b => p[a] # p[b]}

\* prometheus.MustNewConstMetric(desc, GaugeValue, value, labels...)
Metric(name, labels, value) ==
    [name |-> name, labels |-> labels, value |-> value]

Call(api, arg, ok) == [api |-> api, arg |-> arg, ok |-> ok]

\* Outcomes of one API call under ctx: after the deadline every call fails.
FetchOutcomes == IF expired THEN {FALSE} ELSE BOOLEAN

\* ---- collectContainerMetrics --------------------------------------------
\* the switch without its "dead" case
ContainerBucket_DeadUncounted(state) ==
    CASE state = "running" -> "running"
      [] state \in {"exited", "created"} -> "stopped"
      [] state = "paused" -> "paused"
      [] OTHER -> "none"

\* the switch on container.State
ContainerBucket(state) ==
    CASE state = "running" -> "running"
      [] state \in {"exited", "created", "dead"} -> "stopped"
      [] state = "paused" -> "paused"
      [] OTHER -> "none"

CountContainers(list, bucket) ==
    Cardinality({k \in DOMAIN list : ContainerBucket(list[k]) = bucket})

ContainerMetrics(list) ==
    << Metric("containers_running_total", <<>>, CountContainers(list, "running")),
       Metric("containers_stopped_total", <<>>, CountContainers(list, "stopped")),
       Metric("containers_paused_total", <<>>, CountContainers(list, "paused")) >>

\* a failed container listing ending the whole pass
CollectContainerMetrics_AbortPass ==
    /\ pc = "containers"
    /\ \E ok \in FetchOutcomes :
        /\ calls' = Append(calls, Call("ContainerList", 0, ok))
        /\ IF ok
           THEN /\ out' = out \o ContainerMetrics(dContainers)
                /\ logs' = logs
                /\ pc' = "images"
           ELSE /\ out' = out
                /\ logs' = Append(logs, "Error listing containers")
                /\ pc' = "done"
    /\ UNCHANGED <<daemon, i, services, nodes, expired>>

CollectContainerMetrics ==
    /\ pc = "containers"
    /\ \E ok \in FetchOutcomes :
        /\ calls' = Append(calls, Call("ContainerList", 0, ok))
        /\ IF ok
           THEN /\ out' = out \o ContainerMetrics(dContainers)
                /\ logs' = logs
           ELSE /\ out' = out
                /\ logs' = Append(logs, "Error listing containers")
    /\ pc' = "images"
    /\ UNCHANGED <<daemon, i, services, nodes, expired>>

\* ---- collectImageMetrics ------------------------------------------------
CollectImageMetrics ==
    /\ pc = "images"
    /\ out' = Append(out, Metric("images_total", <<>>, 0))
    /\ pc' = "info"
    /\ UNCHANGED <<daemon, i, services, nodes, logs, calls, expired>>

\* ---- Collect: the swarm-mode check --------------------------------------
\* any state but "inactive" taken for swarm mode
SwarmActive_NotInactive(state) == state # "inactive"

SwarmActive(state) == state = "active"

CheckSwarmMode ==
    /\ pc = "info"
    /\ \E ok \in FetchOutcomes :
        /\ calls' = Append(calls, Call("Info", 0, ok))
        /\ IF ok
           THEN /\ logs' = logs
                /\ pc' = IF SwarmActive(dInfoState) THEN "services" ELSE "done"
           ELSE /\ logs' = Append(logs, "Error getting Docker info")
                /\ pc' = "done"
    /\ UNCHANGED <<daemon, i, services, nodes, out, expired>>

\* ---- collectSwarmMetrics: services and their tasks ----------------------
\* where the service loop goes after service k
AfterService(svcs, k) == IF k < Len(svcs) THEN "svcTasks" ELSE "nodes"

ListServices ==
    /\ pc = "services"
    /\ \E ok \in FetchOutcomes :
        /\ calls' = Append(calls, Call("ServiceList", 0, ok))
        /\ IF ok
           THEN /\ services' = dServices
                /\ out' = Append(out, Metric("services_total", <<>>, Len(dServices)))
                /\ logs' = logs
                /\ pc' = AfterService(dServices, 0)
           ELSE /\ services' = <<>>
                /\ out' = out
                /\ logs' = Append(logs, "Error listing services")
                /\ pc' = "nodes"
    /\ i' = 1
    /\ UNCHANGED <<daemon, nodes, expired>>

\* TaskList filtered by service ID
TasksOfService(taskList, id) ==
    SelectSeq(taskList, LAMBDA t : t.ServiceID = id)

RunningTasks(taskList) ==
    Cardinality({k \in DOMAIN taskList : taskList[k].State = "running"})

ReadyNodes(nodeList) ==
    Cardinality({k \in DOMAIN nodeList : nodeList[k].State = "ready"})

\* a failed task listing tried a second time
ListServiceTasks_RetryOnce ==
    /\ pc = "svcTasks"
    /\ LET service == services[i] IN
       \E ok \in FetchOutcomes :
        /\ calls' = Append(calls, Call("TaskList", service.ID, ok))
        /\ logs' = IF ok THEN logs ELSE Append(logs, "Error listing tasks for service")
        /\ IF ~ok /\ Call("TaskList", service.ID, FALSE) \notin Range(calls)
           THEN /\ out' = out
                /\ i' = i
                /\ pc' = "svcTasks"
           ELSE /\ out' = out
                /\ i' = i + 1
                /\ pc' = AfterService(services, i)
    /\ UNCHANGED <<daemon, services, nodes, expired>>

\* The service's tasks are listed; its running gauge is emitted; its desired
\* gauge follows unless a node list is needed first (global mode).
ListServiceTasks ==
    /\ pc = "svcTasks"
    /\ LET service == services[i] IN
       \E ok \in FetchOutcomes :
        /\ calls' = Append(calls, Call("TaskList", service.ID, ok))
        /\ IF ~ok
           THEN /\ logs' = Append(logs, "Error listing tasks for service")
                /\ out' = out
                /\ i' = i + 1
                /\ pc' = AfterService(services, i)
           ELSE LET running == Metric("tasks_running_total", <<service.Name>>,
                                  RunningTasks(TasksOfService(dTasks, service.ID)))
                IN  /\ logs' = logs
                    /\ IF service.Mode = "replicated"
                       THEN /\ out' = out \o <<running,
                                 Metric("tasks_desired_total", <<service.Name>>,
                                        service.Replicas)>>
                            /\ i' = i + 1
                            /\ pc' = AfterService(services, i)
                       ELSE IF service.Mode = "global"
                       THEN /\ out' = Append(out, running)
                            /\ i' = i
                            /\ pc' = "svcNodes"
                       ELSE /\ out' = out \o <<running,
                                 Metric("tasks_desired_total", <<service.Name>>, 0)>>
                            /\ i' = i + 1
                            /\ pc' = AfterService(services, i)
    /\ UNCHANGED <<daemon, services, nodes, expired>>

\* desiredReplicas of a global service, from the outcome of its NodeList call
GlobalDesired(ok, nodeList) == IF ok THEN ReadyNodes(nodeList) ELSE 0

ListServiceNodes ==
    /\ pc = "svcNodes"
    /\ LET service == services[i] IN
       \E ok \in FetchOutcomes :
        /\ calls' = Append(calls, Call("NodeList", service.ID, ok))
        /\ logs' = IF ok THEN logs ELSE Append(logs, "Error listing nodes")
        /\ out' = Append(out, Metric("tasks_desired_total", <<service.Name>>,
                                     GlobalDesired(ok, dNodes)))
    /\ i' = i + 1
    /\ pc' = AfterService(services, i)
    /\ UNCHANGED <<daemon, services, nodes, expired>>

\* ---- collectSwarmMetrics: nodes -----------------------------------------
\* nodes_total emitted from the nil list of a failed call
NodeMetrics_TotalOnFailure(ok, nodeList) ==
    IF ok
    THEN << Metric("nodes_total", <<>>, Len(nodeList)),
            Metric("nodes_active_total", <<>>, ReadyNodes(nodeList)) >>
    ELSE << Metric("nodes_total", <<>>, 0) >>

NodeMetrics(ok, nodeList) ==
    IF ok
    THEN << Metric("nodes_total", <<>>, Len(nodeList)),
            Metric("nodes_active_total", <<>>, ReadyNodes(nodeList)) >>
    ELSE <<>>

ListNodes ==
    /\ pc = "nodes"
    /\ \E ok \in FetchOutcomes :
        /\ calls' = Append(calls, Call("NodeList", 0, ok))
        /\ nodes' = IF ok THEN dNodes ELSE <<>>
        /\ logs' = IF ok THEN logs ELSE Append(logs, "Error listing nodes")
        /\ out' = out \o NodeMetrics(ok, dNodes)
    /\ pc' = "stacks"
    /\ UNCHANGED <<daemon, i, services, expired>>

\* ---- collectSwarmMetrics: stacks ----------------------------------------
\* one stack counted per labelled service
StackCount_PerService(svcs) ==
    Cardinality({j \in DOMAIN svcs : svcs[j].Stack # NoStack})

\* len(stackMap)
StackCount(svcs) ==
    Cardinality({svcs[k].Stack : k \in {j \in DOMAIN svcs : svcs[j].Stack # NoStack}})

CountStacks ==
    /\ pc = "stacks"
    /\ out' = Append(out, Metric("stacks_total", <<>>, StackCount(services)))
    /\ pc' = IF Len(nodes) > 0 THEN "allTasks" ELSE "done"
    /\ UNCHANGED <<daemon, i, services, nodes, logs, calls, expired>>

\* ---- collectSwarmMetrics: running containers per node -------------------
NodeIDsOf(nodeList) == {nodeList[k].ID : k \in DOMAIN nodeList}

\* nodeNames[id]; a key that is not in a Go map reads as ""
NodeName(nodeList, id) ==
    IF id \in NodeIDsOf(nodeList)
    THEN (CHOOSE n \in Range(nodeList) : n.ID = id).Hostname
    ELSE ""

\* the increment without its presence check: a running task on an unknown
\* node creates a key of its own
NodeContainers_NoPresenceCheck(nodeList, taskList) ==
    [id \in NodeIDsOf(nodeList)
            \cup {taskList[k].NodeID :
                     k \in {j \in DOMAIN taskList : taskList[j].State = "running"}} |->
        Cardinality({k \in DOMAIN taskList :
            taskList[k].State = "running" /\ taskList[k].NodeID = id})]

\* a counter initialised for the ready nodes only
NodeContainers_ReadyOnly(nodeList, taskList) ==
    [id \in {nodeList[k].ID : k \in {j \in DOMAIN nodeList : nodeList[j].State = "ready"}} |->
        Cardinality({k \in DOMAIN taskList :
            taskList[k].State = "running" /\ taskList[k].NodeID = id})]

\* nodeContainers after the loop over the tasks: a key for every node of the
\* list, and a running task counted only under a key that is present
NodeContainers(nodeList, taskList) ==
    [id \in NodeIDsOf(nodeList) |->
        Cardinality({k \in DOMAIN taskList :
            taskList[k].State = "running" /\ taskList[k].NodeID = id})]

\* the total taken over every running task
TotalContainers_AllRunning(nodeList, taskList) ==
    Cardinality({k \in DOMAIN taskList : taskList[k].State = "running"})

\* totalContainers
TotalContainers(nodeList, taskList) ==
    LET nc == NodeContainers(nodeList, taskList)
    IN  SumOver(nc, DOMAIN nc)

\* the samples of the range over nodeContainers, taken in the order `order`
PerNodeMetrics(nodeList, taskList, order) ==
    LET nc == NodeContainers(nodeList, taskList)
    IN  [k \in DOMAIN order |->
            Metric("containers_running_all_nodes_total",
                   <<order[k], NodeName(nodeList, order[k])>>, nc[order[k]])]

ListAllTasks ==
    /\ pc = "allTasks"
    /\ \E ok \in FetchOutcomes :
        /\ calls' = Append(calls, Call("TaskList", 0, ok))
        /\ IF ok
           THEN /\ logs' = logs
                /\ \E order \in Orders(DOMAIN NodeContainers(nodes, dTasks)) :
                    out' = out
                        \o <<Metric("containers_running_total_all_nodes", <<>>,
                                    TotalContainers(nodes, dTasks))>>
                        \o PerNodeMetrics(nodes, dTasks, order)
           ELSE /\ logs' = Append(logs, "Error listing tasks")
                /\ out' = out
    /\ pc' = "done"
    /\ UNCHANGED <<daemon, i, services, nodes, expired>>

\* ---- the deadline of the pass -------------------------------------------
DeadlineElapses ==
    /\ pc # "done"
    /\ ~expired
    /\ expired' = TRUE
    /\ UNCHANGED <<daemon, pc, i, services, nodes, out, logs, calls>>

\* ---- the daemon states a pass can meet ----------------------------------
Service(id, mode, replicas, stack) ==
    [ID |-> id, Name |-> <<"svc", id>>, Mode |-> mode,
     Replicas |-> replicas, Stack |-> stack]

ServiceKinds ==
    {<<"replicated", r>> : r \in ReplicaTargets} \cup {<<"global", 0>>, <<"other", 0>>}

ServiceLists ==
    {[k \in DOMAIN kinds |->
        Service(k, kinds[k][1][1], kinds[k][1][2], kinds[k][2])] :
     kinds \in SeqUpTo(ServiceKinds \X (StackNames \cup {NoStack}), MaxServices)}

Node(id, state) == [ID |-> id, Hostname |-> <<"host", id>>, State |-> state]

\* node lists: any subset of the node identities, by increasing identity
RECURSIVE NodeSeq(_, _)
NodeSeq(ids, st) ==
    IF ids = {} THEN <<>>
    ELSE LET m == CHOOSE x \in ids : \A y \in ids : x >= y
         IN  Append(NodeSeq(ids \ {m}, st), Node(m, st[m]))

NodeLists ==
    UNION {{NodeSeq(ids, st) : st \in [ids -> NodeStates]} : ids \in SUBSET NodeIds}

Task(service, node, state) == [ServiceID |-> service, NodeID |-> node, State |-> state]

TaskLists(serviceIds) ==
    SeqUpTo({Task(s, n, st) : s \in serviceIds, n \in NodeIds, st \in TaskStates},
            MaxTasks)

Init ==
    /\ \/ \* a standalone daemon, or a small swarm, with any containers
          /\ dContainers \in SeqUpTo(ContainerStates, MaxContainers)
          /\ dInfoState \in LocalNodeStates
          /\ IF dInfoState = "active"
             THEN /\ dServices = <<Service(1, "global", 0, "a")>>
                  /\ dNodes = <<Node(1, "ready")>>
                  /\ dTasks = <<Task(1, 1, "running")>>
             ELSE /\ dServices = <<>>
                  /\ dNodes = <<>>
                  /\ dTasks = <<>>
       \/ \* a swarm with any services
          /\ dContainers = <<"running">>
          /\ dInfoState = "active"
          /\ dServices \in ServiceLists
          /\ dNodes = <<Node(1, "ready"), Node(2, "down")>>
          /\ dTasks = <<Task(1, 1, "running"), Task(2, 1, "running")>>
       \/ \* a swarm with one global service, any nodes and any tasks
          /\ dContainers = <<"running">>
          /\ dInfoState = "active"
          /\ dServices = <<Service(1, "global", 0, NoStack)>>
          /\ dNodes \in NodeLists
          /\ dTasks \in TaskLists({1})
    /\ pc = "containers"
    /\ i = 1
    /\ services = <<>>
    /\ nodes = <<>>
    /\ out = <<>>
    /\ logs = <<>>
    /\ calls = <<>>
    /\ expired = FALSE

Step ==
    \/ CollectContainerMetrics
    \/ CollectImageMetrics
    \/ CheckSwarmMode
    \/ ListServices
    \/ ListServiceTasks
    \/ ListServiceNodes
    \/ ListNodes
    \/ CountStacks
    \/ ListAllTasks

Next == Step \/ DeadlineElapses

Spec == Init /\ [][Next]_vars

\* The pass runs on its own goroutine and every API call returns (at the
\* latest when the deadline of ctx elapses), so each step is eventually taken.
FairSpec == Init /\ [][Next]_vars /\ WF_vars(Step)


\* ==== properties =========================================================
\* ---- reading the output and the call log --------------------------------
Idx(name) == {k \in DOMAIN out : out[k].name = name}

Emitted(name) == Idx(name) # {}

ValuesOf(name) == {out[k].value : k \in Idx(name)}

\* the value of a sample that is emitted exactly once
TheValue(name) == out[CHOOSE k \in Idx(name) : TRUE].value

LabelledIdx(name, labels) ==
    {k \in DOMAIN out : out[k].name = name /\ out[k].labels = labels}

ContainerSampleNames ==
    {"containers_running_total", "containers_stopped_total", "containers_paused_total"}

SwarmSampleNames ==
    {"services_total", "tasks_running_total", "tasks_desired_total", "nodes_total",
     "nodes_active_total", "stacks_total", "containers_running_all_nodes_total",
     "containers_running_total_all_nodes"}

Made(api, arg) == \E k \in DOMAIN calls : calls[k].api = api /\ calls[k].arg = arg

Succeeded(api, arg) == Call(api, arg, TRUE) \in Range(calls)

Failed(api, arg) == Call(api, arg, FALSE) \in Range(calls)

InSwarmPass == Succeeded("Info", 0) /\ dInfoState = "active"

StatesCounted(list, states) == Cardinality({k \in DOMAIN list : list[k] \in states})

\* ---- C1 -----------------------------------------------------------------
\* C1 as stated: whenever the container listing succeeded, the running,
\* stopped and paused samples add up to the length of the list, for
\* containers in any state the daemon reports.
C1_SumIsListLength ==
    Succeeded("ContainerList", 0) =>
        /\ \A n \in ContainerSampleNames : Cardinality(Idx(n)) = 1
        /\ TheValue("containers_running_total") + TheValue("containers_stopped_total")
             + TheValue("containers_paused_total") = Len(dContainers)

\* C1 as amended: whenever the container listing succeeded, each of the three
\* samples is emitted once; running counts the containers in state running,
\* stopped those in exited, created or dead, paused those in paused; a
\* container in any other state (restarting, removing) is counted in no
\* bucket, so the three add up to the number of containers in those five states.
C1_SumIsCountedStates ==
    Succeeded("ContainerList", 0) =>
        /\ \A n \in ContainerSampleNames : Cardinality(Idx(n)) = 1
        /\ TheValue("containers_running_total") = StatesCounted(dContainers, {"running"})
        /\ TheValue("containers_stopped_total")
             = StatesCounted(dContainers, {"exited", "created", "dead"})
        /\ TheValue("containers_paused_total") = StatesCounted(dContainers, {"paused"})
        /\ TheValue("containers_running_total") + TheValue("containers_stopped_total")
             + TheValue("containers_paused_total")
             = Len(dContainers) - StatesCounted(dContainers, {"restarting", "removing"})

C1_Witness ==
    /\ pc = "done"
    /\ Succeeded("ContainerList", 0)
    /\ "dead" \in Range(dContainers)
    /\ "restarting" \in Range(dContainers)
    /\ TheValue("containers_stopped_total") = 1

\* ---- C2 -----------------------------------------------------------------
\* C2 as stated: once the container listing has failed, nothing is emitted
\* and no further API call is made in the pass.
C2_FailureAbandonsPass ==
    Failed("ContainerList", 0) => (out = <<>> /\ Len(calls) = 1)

\* C2 as amended: a failed container listing is logged and skips only the
\* three container samples; the pass goes on: images_total is emitted, the
\* daemon-info call is made, and when it succeeds and reports cluster mode
\* active the swarm steps run (the service list is fetched and stacks_total
\* is emitted).
C2_FailureSkipsContainerSamplesOnly ==
    (pc = "done" /\ Failed("ContainerList", 0)) =>
        /\ \A n \in ContainerSampleNames : ~Emitted(n)
        /\ "Error listing containers" \in Range(logs)
        /\ Cardinality(Idx("images_total")) = 1
        /\ Made("Info", 0)
        /\ InSwarmPass => (Made("ServiceList", 0) /\ Emitted("stacks_total"))

C2_Witness ==
    /\ pc = "done"
    /\ Failed("ContainerList", 0)
    /\ InSwarmPass
    /\ Emitted("images_total")
    /\ Emitted("services_total")
    /\ Emitted("tasks_running_total")

\* ---- C3 -----------------------------------------------------------------
\* C3: a swarm-level sample is in the output only if the daemon-info call
\* succeeded and reported "active"; when the info call failed or reported
\* another state, the finished pass holds container and image samples only;
\* and the container and image samples emitted before the info call are
\* in the output at every later point of the pass.
C3_SwarmSamplesOnlyWhenActive ==
    /\ (\E k \in DOMAIN out : out[k].name \in SwarmSampleNames) => InSwarmPass
    /\ (pc = "done" /\ ~InSwarmPass) =>
          \A k \in DOMAIN out : out[k].name \in ContainerSampleNames \cup {"images_total"}
    /\ Made("Info", 0) =>
          /\ Cardinality(Idx("images_total")) = 1
          /\ \A n \in ContainerSampleNames :
                Cardinality(Idx(n)) = IF Succeeded("ContainerList", 0) THEN 1 ELSE 0

C3_Witness ==
    /\ pc = "done"
    /\ Succeeded("Info", 0)
    /\ dInfoState = "pending"
    /\ Len(out) = 4

\* ---- C4 -----------------------------------------------------------------
\* C4: nodes_total and nodes_active_total are emitted together or not at
\* all; when the node listing of the nodes step failed neither is emitted,
\* while the container, image, service and task samples emitted before it
\* are still in the output of the finished pass and stacks_total is emitted.
C4_NodeFailureSkipsNodeSamplesOnly ==
    /\ Cardinality(Idx("nodes_total")) = Cardinality(Idx("nodes_active_total"))
    /\ Failed("NodeList", 0) =>
          /\ ~Emitted("nodes_total")
          /\ ~Emitted("nodes_active_total")
          /\ Emitted("images_total")
          /\ Succeeded("ContainerList", 0) =>
                \A n \in ContainerSampleNames : Emitted(n)
          /\ Succeeded("ServiceList", 0) => Emitted("services_total")
          /\ \A k \in DOMAIN dServices :
                Succeeded("TaskList", dServices[k].ID) =>
                    LabelledIdx("tasks_running_total", <<dServices[k].Name>>) # {}
          /\ pc = "done" => Cardinality(Idx("stacks_total")) = 1

C4_Witness ==
    /\ pc = "done"
    /\ Failed("NodeList", 0)
    /\ Emitted("containers_running_total")
    /\ Emitted("services_total")
    /\ Emitted("tasks_running_total")
    /\ Emitted("tasks_desired_total")
    /\ Emitted("stacks_total")

\* ---- C5 -----------------------------------------------------------------
\* C5: every tasks_desired_total sample of a global-mode service carries the
\* number of ready nodes of the node list, and that list was fetched for it.
C5_GlobalDesiredIsReadyNodes ==
    \A k \in DOMAIN dServices :
        dServices[k].Mode = "global" =>
            \A j \in LabelledIdx("tasks_desired_total", <<dServices[k].Name>>) :
                /\ Succeeded("NodeList", dServices[k].ID)
                /\ out[j].value = ReadyNodes(dNodes)

\* ---- C6 -----------------------------------------------------------------
\* C6: once the service loop is over, a service one of whose fetches failed
\* has no tasks_running_total and no tasks_desired_total sample, and every
\* other service of the fetched list has one of each.
C6_FailedServiceIsSkipped ==
    (Succeeded("ServiceList", 0) /\ pc \in {"nodes", "stacks", "allTasks", "done"}) =>
        \A k \in DOMAIN dServices :
            LET id == dServices[k].ID
                name == <<dServices[k].Name>>
            IN  IF Failed("TaskList", id) \/ Failed("NodeList", id)
                THEN /\ LabelledIdx("tasks_running_total", name) = {}
                     /\ LabelledIdx("tasks_desired_total", name) = {}
                ELSE /\ Cardinality(LabelledIdx("tasks_running_total", name)) = 1
                     /\ Cardinality(LabelledIdx("tasks_desired_total", name)) = 1

\* ---- C7 -----------------------------------------------------------------
\* C7: a finished cluster-mode pass emits stacks_total once, with the number
\* of distinct stack-namespace label values over the services of the fetched
\* list (unlabelled services add nothing), and 0 when the list is empty or
\* its fetch failed.
C7_StacksAreDistinctLabels ==
    (pc = "done" /\ InSwarmPass) =>
        /\ Cardinality(Idx("stacks_total")) = 1
        /\ TheValue("stacks_total") =
              IF Succeeded("ServiceList", 0)
              THEN Cardinality({dServices[k].Stack : k \in DOMAIN dServices} \ {NoStack})
              ELSE 0

C7_Witness ==
    /\ pc = "done"
    /\ InSwarmPass
    /\ Succeeded("ServiceList", 0)
    /\ Len(dServices) = 2
    /\ dServices[1].Stack = dServices[2].Stack
    /\ dServices[1].Stack # NoStack
    /\ TheValue("stacks_total") = 1

\* ---- C8 -----------------------------------------------------------------
\* C8: when the full task listing succeeded, the per-node gauges are exactly
\* one per node of the node list, each with the number of running tasks of
\* that node, so a running task of a node that is not in the list is in no
\* per-node count; the pass is finished and the total gauge is emitted.
C8_UnknownNodeTaskNotCounted ==
    Succeeded("TaskList", 0) =>
        /\ pc = "done"
        /\ Cardinality(Idx("containers_running_total_all_nodes")) = 1
        /\ \A k \in Idx("containers_running_all_nodes_total") :
              /\ out[k].labels[1] \in {dNodes[n].ID : n \in DOMAIN dNodes}
              /\ out[k].value = Cardinality({t \in DOMAIN dTasks :
                    dTasks[t].State = "running" /\ dTasks[t].NodeID = out[k].labels[1]})
        /\ \A n \in DOMAIN dNodes :
              Cardinality(LabelledIdx("containers_running_all_nodes_total",
                                      <<dNodes[n].ID, dNodes[n].Hostname>>)) = 1

C8_Witness ==
    /\ pc = "done"
    /\ Succeeded("TaskList", 0)
    /\ \E t \in DOMAIN dTasks :
          /\ dTasks[t].State = "running"
          /\ dTasks[t].NodeID \notin {dNodes[n].ID : n \in DOMAIN dNodes}
    /\ \E k \in Idx("containers_running_all_nodes_total") : out[k].value = 1

\* ---- C9 -----------------------------------------------------------------
\* C9: whenever containers_running_total_all_nodes is in the output, its
\* value is the sum of the values of the containers_running_all_nodes_total
\* samples of the output, of which there is one per node of the node list.
C9_TotalIsSumOfPerNode ==
    Emitted("containers_running_total_all_nodes") =>
        /\ Cardinality(Idx("containers_running_total_all_nodes")) = 1
        /\ Cardinality(Idx("containers_running_all_nodes_total")) = Len(dNodes)
        /\ TheValue("containers_running_total_all_nodes")
             = SumOver([k \in Idx("containers_running_all_nodes_total") |-> out[k].value],
                       Idx("containers_running_all_nodes_total"))

C9_Witness ==
    /\ Emitted("containers_running_total_all_nodes")
    /\ TheValue("containers_running_total_all_nodes") = 2
    /\ Cardinality(Idx("containers_running_all_nodes_total")) = 2
    /\ \A k \in Idx("containers_running_all_nodes_total") : out[k].value = 1

\* ---- C10 ----------------------------------------------------------------
\* the call log holds no call twice, failed or not
NoFetchRepeated ==
    \A a, b \in DOMAIN calls :
        (calls[a].api = calls[b].api /\ calls[a].arg = calls[b].arg) => a = b

\* five calls of the pass itself and at most two per service of the list
FetchesBounded == Len(calls) <= 5 + 2 * Len(dServices)

\* a failure is logged, once, and goes nowhere else
FailuresOnlyLogged ==
    Len(logs) = Cardinality({k \in DOMAIN calls : ~calls[k].ok})

\* C10: whatever fetches succeed or fail, the deadline having elapsed or not,
\* no fetch is made twice, the fetches number at most five plus two per
\* service, each failure ends in the log and only there, and the pass
\* eventually returns.
C10_PassAlwaysCompletes ==
    /\ [](NoFetchRepeated /\ FetchesBounded /\ FailuresOnlyLogged)
    /\ <>(pc = "done")

C10_Witness ==
    /\ pc = "done"
    /\ expired
    /\ Len(dServices) = 2
    /\ Len(calls) = 5 + 2 * Len(dServices)
    /\ Failed("TaskList", 0)
    /\ Len(out) >= 8

\* ---- C11 ----------------------------------------------------------------
\* the identities of the per-node gauges in the output
PerNodeGaugeIDs == {out[k].labels[1] : k \in Idx("containers_running_all_nodes_total")}

ReadyIDs(nodeList) ==
    {nodeList[n].ID : n \in {m \in DOMAIN nodeList : nodeList[m].State = "ready"}}

\* the running tasks of the nodes in `ids`
RunningOn(ids) ==
    Cardinality({t \in DOMAIN dTasks :
        dTasks[t].State = "running" /\ dTasks[t].NodeID \in ids})

\* C11 as stated: when the full task listing succeeded, the per-node gauges
\* are exactly those of the ready nodes of the node list, and a running task
\* of a node that is not ready is counted in no per-node gauge, so the gauges
\* add up to the running tasks of the ready nodes.
C11_CountersForReadyNodesOnly ==
    Succeeded("TaskList", 0) =>
        /\ PerNodeGaugeIDs = ReadyIDs(dNodes)
        /\ SumOver([k \in Idx("containers_running_all_nodes_total") |-> out[k].value],
                   Idx("containers_running_all_nodes_total"))
             = RunningOn(ReadyIDs(dNodes))

\* C11 as amended: when the full task listing succeeded, a per-node counter
\* exists for every node of the node list, ready or not, and for no other
\* node; one gauge is emitted per counter, and a running task of a listed
\* node that is not ready is counted in that node's gauge, so the gauges add
\* up to the running tasks of all listed nodes.
C11_CountersForAllListedNodes ==
    Succeeded("TaskList", 0) =>
        /\ PerNodeGaugeIDs = {dNodes[n].ID : n \in DOMAIN dNodes}
        /\ Cardinality(Idx("containers_running_all_nodes_total")) = Len(dNodes)
        /\ \A n \in DOMAIN dNodes :
              dNodes[n].State # "ready" =>
                \E k \in LabelledIdx("containers_running_all_nodes_total",
                                     <<dNodes[n].ID, dNodes[n].Hostname>>) :
                    out[k].value = RunningOn({dNodes[n].ID})
        /\ SumOver([k \in Idx("containers_running_all_nodes_total") |-> out[k].value],
                   Idx("containers_running_all_nodes_total"))
             = RunningOn({dNodes[n].ID : n \in DOMAIN dNodes})

C11_Witness ==
    /\ pc = "done"
    /\ Succeeded("TaskList", 0)
    /\ \E n \in DOMAIN dNodes :
          /\ dNodes[n].State = "down"
          /\ RunningOn({dNodes[n].ID}) = 1
          /\ \E k \in LabelledIdx("containers_running_all_nodes_total",
                                  <<dNodes[n].ID, dNodes[n].Hostname>>) :
                out[k].value = 1
    /\ \E n \in DOMAIN dNodes : dNodes[n].State = "ready"

====
